---------------------------- MODULE Spec2Model ----------------------------
(***************************************************************************)
(* A model of scvi/module/_jaxpeakvae.py: the encoder, the decoder (also   *)
(* used as depth encoder), the region factors, and the inference /         *)
(* generative / loss computation of JaxPEAKVAE.                             *)
(*                                                                         *)
(* Numbers.  Tensors hold float32 values.  Here a value is an integer in   *)
(* units of 2^-10 (Q10), computed with round-to-nearest after every        *)
(* operation.  The arguments of the logarithms of the reconstruction loss  *)
(* are carried in units of 2^-30 (Q30) and rounded to a 24-bit significand *)
(* as float32 does, because there the size of eps against one unit in the  *)
(* last place decides the result.  +inf, -inf and NaN are three reserved   *)
(* codes that the loss arithmetic propagates as IEEE 754 does.             *)
(***************************************************************************)
EXTENDS Integers, Sequences, FiniteSets

-----------------------------------------------------------------------------
(* Fixed-point helpers *)

Unit == 2^10
One30 == 2^30

\* a vector evaluated once, element by element (an unevaluated one would be
\* recomputed at every use)
Array(f) == f \o <<>>

\* Body applied to the value of e, with e evaluated once
With(e, Body(_)) == CHOOSE r \in {Body(v) : v \in {e}} : TRUE

Min(a, b) == IF a < b THEN a ELSE b
Max(a, b) == IF a < b THEN b ELSE a

\* a / b rounded to nearest (b > 0)
RDiv(a, b) == (a + b \div 2) \div b

\* product of two Q10 values
Mul(a, b) == RDiv(a * b, Unit)

RECURSIVE SumTo(_, _)
SumTo(f, n) == IF n = 0 THEN 0 ELSE f[n] + SumTo(f, n - 1)

\* sum of a sequence (or of a function on 1..n) of finite values
Sum(s) == With(Array(s), LAMBDA v : SumTo(v, Len(v)))

RECURSIVE Log2Floor(_)
Log2Floor(v) == IF v < 2 THEN 0 ELSE 1 + Log2Floor(v \div 2)

RECURSIVE IsqrtIter(_, _, _)
IsqrtIter(n, lo, hi) ==
    IF lo >= hi THEN lo
    ELSE LET mid == (lo + hi + 1) \div 2
         IN  IF mid * mid <= n THEN IsqrtIter(n, mid, hi)
             ELSE IsqrtIter(n, lo, mid - 1)

\* floor of the square root of n, n < 2^31
Isqrt(n) == IsqrtIter(n, 0, 46340)

\* ln 2 in Q10
Ln2 == RDiv(693147 * Unit, 1000000)

\* ln(m) in Q10 for a significand m in [1, 2), given as t = m * 2^12
LnSignificand(t) ==
    LET y == ((t - 4096) * 16384) \div (t + 4096)
        y2 == (y * y) \div 16384
        y3 == (y * y2) \div 16384
        y5 == (y3 * y2) \div 16384
        y7 == (y5 * y2) \div 16384
    IN  RDiv(2 * (y + y3 \div 3 + y5 \div 5 + y7 \div 7), 16)

\* ln(v / 2^q) in Q10 for an integer v > 0, rounded to nearest
LnRaw(v, q) ==
    LET e == Log2Floor(v)
        t == IF e >= 12 THEN v \div 2^(e - 12) ELSE v * 2^(12 - e)
    IN  (e - q) * Ln2 + LnSignificand(t)

\* the same, but a result that is not exactly zero keeps its sign
LnSigned(v, q) ==
    LET r == LnRaw(v, q)
        one == 2^q
    IN  IF v = one THEN 0
        ELSE IF v < one THEN Min(r, -1)
        ELSE Max(r, 1)

\* e^x in Q10 for a Q10 x >= 0 (saturating above x = 12)
ExpPos(x) ==
    LET c == Min(x, 12 * Unit)
        n == c \div Ln2
        r == c % Ln2
        r2 == Mul(r, r)
        r3 == Mul(r2, r)
        r4 == Mul(r3, r)
    IN  (Unit + r + r2 \div 2 + r3 \div 6 + r4 \div 24) * 2^n

\* float32 round-to-nearest-even of a non-negative Q30 value
Round32(v) ==
    LET e == Log2Floor(v)
    IN  IF e <= 23 THEN v
        ELSE LET q == 2^(e - 23)
                 r == v % q
                 base == v - r
             IN  IF 2 * r < q THEN base
                 ELSE IF 2 * r > q THEN base + q
                 ELSE IF (base \div q) % 2 = 0 THEN base
                 ELSE base + q

-----------------------------------------------------------------------------
(* IEEE 754 special values of the loss arithmetic *)

PosInf == 2^30
NegInf == -(2^30)
NaN == 2^30 + 1

IsFinite(a) == a # PosInf /\ a # NegInf /\ a # NaN

FNeg(a) == IF a = NaN THEN NaN
           ELSE IF a = PosInf THEN NegInf
           ELSE IF a = NegInf THEN PosInf
           ELSE -a

FAdd(a, b) ==
    IF a = NaN \/ b = NaN THEN NaN
    ELSE IF (a = PosInf /\ b = NegInf) \/ (a = NegInf /\ b = PosInf) THEN NaN
    ELSE IF a = PosInf \/ b = PosInf THEN PosInf
    ELSE IF a = NegInf \/ b = NegInf THEN NegInf
    ELSE a + b

FSub(a, b) == FAdd(a, FNeg(b))

\* product of a Q10 factor k (finite) and a value a
FMul(k, a) ==
    IF a = NaN THEN NaN
    ELSE IF ~IsFinite(a)
         THEN IF k = 0 THEN NaN
              ELSE IF k > 0 THEN a ELSE FNeg(a)
    ELSE (a \div Unit) * k + RDiv((a % Unit) * k, Unit)

\* product of two Q10 values, special values included
FProd(a, b) ==
    IF a = NaN \/ b = NaN THEN NaN
    ELSE IF IsFinite(a) /\ IsFinite(b) THEN Mul(a, b)
    ELSE IF a = 0 \/ b = 0 THEN NaN
    ELSE IF (a > 0) = (b > 0) THEN PosInf ELSE NegInf

RECURSIVE FSumTo(_, _)
FSumTo(f, n) == IF n = 0 THEN 0 ELSE FAdd(FSumTo(f, n - 1), f[n])

\* sum of a sequence of values, special values included
FSum(s) == With(Array(s), LAMBDA v : FSumTo(v, Len(v)))

-----------------------------------------------------------------------------
(* Sizes of the modelled network and of its inputs *)

n_input == 2
n_batch == 2
n_hidden == 2
n_latent == 1

\* most cells in a minibatch
MaxCells == 2
\* most forward passes run in training mode
MaxTrainPasses == 1

\* randomness keys a stream may be given
Keys == {0, 1}

-----------------------------------------------------------------------------
(* jax.numpy / flax.linen / numpyro primitives, on Q10 values *)

Exp(x) ==
    IF x = NaN \/ x = PosInf THEN x
    ELSE IF x = NegInf THEN 0
    ELSE IF x >= 0 THEN ExpPos(x) ELSE RDiv(Unit * Unit, ExpPos(-x))

Sqrt(v) ==
    IF v = NaN \/ v < 0 THEN NaN
    ELSE IF v = PosInf THEN PosInf
    ELSE Isqrt(v * Unit)

Sigmoid(h) ==
    IF h = NaN THEN NaN
    ELSE IF h = PosInf THEN Unit
    ELSE IF h = NegInf THEN 0
    ELSE RDiv(Unit * Unit, Unit + Exp(-h))

\* jnp.log1p of a raw count: -inf at -1, NaN below
Log1p(count) ==
    IF count < -1 THEN NaN
    ELSE IF count = -1 THEN NegInf
    ELSE LnSigned(1 + count, 0)

\* nn.leaky_relu, negative_slope = 0.01
LeakyRelu(h) ==
    IF ~IsFinite(h) THEN h
    ELSE IF h >= 0 THEN h ELSE RDiv(h * 10, Unit)

\* jax.nn.one_hot(index, n): an index outside 0..n-1 encodes as all zeros
OneHot(index, n) == Array([k \in 1..n |-> IF index = k - 1 THEN Unit ELSE 0])

\* the Dense layer: v . kernel + bias
Dense(layer, v) ==
    Array([j \in 1..Len(layer.bias) |->
        FAdd(layer.bias[j], FSum([i \in 1..Len(v) |-> FProd(v[i], layer.kernel[i][j])]))])

VecAdd(a, b) == Array([i \in 1..Len(a) |-> FAdd(a[i], b[i])])

\* (h - mean) / sqrt(var + epsilon) * scale + bias, with sd = sqrt(var + epsilon)
Normalize(h, mean, sd, scale, bias) == Mul(RDiv((h - mean) * Unit, sd), scale) + bias

\* nn.LayerNorm over the features of one cell, epsilon = 1e-6 (one unit of
\* the Q20 variance).  A feature that is not finite makes the variance
\* E[h^2] - E[h]^2 NaN, and with it every output.
LayerNorm(ln, h) ==
    IF \E i \in 1..Len(h) : ~IsFinite(h[i]) THEN Array([i \in 1..Len(h) |-> NaN])
    ELSE
    With(RDiv(Sum(h), Len(h)), LAMBDA mean :
    With(Isqrt(RDiv(Sum([i \in 1..Len(h) |-> (h[i] - mean) * (h[i] - mean)]), Len(h)) + 1),
         LAMBDA sd :
    Array([i \in 1..Len(h) |-> Normalize(h[i], mean, sd, ln.scale[i], ln.bias[i])])))

\* momentum of nn.BatchNorm, 0.99
BatchNormMomentum == 1014

\* running statistic ra after a call that saw the batch statistic b
RunningUpdate(ra, b) ==
    IF IsFinite(ra) /\ IsFinite(b)
    THEN RDiv(BatchNormMomentum * ra + (Unit - BatchNormMomentum) * b, Unit)
    ELSE FAdd(FMul(BatchNormMomentum, ra), FMul(Unit - BatchNormMomentum, b))

\* nn.BatchNorm(use_running_average = False) over the cells of a minibatch,
\* epsilon = 1e-5 (ten units of the Q20 variance).  hs is the minibatch (one
\* feature vector per cell), bn the layer's scale and bias, ra its running
\* statistics.  Gives the normalised minibatch and the running statistics
\* after the call.  A feature that is not finite in some cell has a batch
\* variance E[h^2] - E[h]^2 of NaN, and NaN outputs in every cell.
BatchNormNotRunning(bn, ra, hs) ==
    With(Array([i \in 1..Len(bn.scale) |-> \A c \in 1..Len(hs) : IsFinite(hs[c][i])]),
         LAMBDA finite :
    With(Array([i \in 1..Len(bn.scale) |->
                  IF finite[i] THEN RDiv(Sum([c \in 1..Len(hs) |-> hs[c][i]]), Len(hs))
                  ELSE FSum([c \in 1..Len(hs) |-> hs[c][i]])]), LAMBDA mean :
    With(Array([i \in 1..Len(bn.scale) |->
                  IF finite[i]
                  THEN RDiv(Sum([c \in 1..Len(hs) |->
                              (hs[c][i] - mean[i]) * (hs[c][i] - mean[i])]), Len(hs))
                  ELSE NaN]),
         LAMBDA var20 :
    With(Array([i \in 1..Len(bn.scale) |-> IF finite[i] THEN Isqrt(var20[i] + 10) ELSE NaN]),
         LAMBDA sd :
    [out |-> Array([c \in 1..Len(hs) |-> Array([i \in 1..Len(bn.scale) |->
                IF finite[i]
                THEN Normalize(hs[c][i], mean[i], sd[i], bn.scale[i], bn.bias[i])
                ELSE NaN])]),
     stats |-> [mean |-> Array([i \in 1..Len(bn.scale) |->
                                  RunningUpdate(ra.mean[i], mean[i])]),
                var |-> Array([i \in 1..Len(bn.scale) |->
                                  RunningUpdate(ra.var[i],
                                      IF finite[i] THEN RDiv(var20[i], Unit) ELSE NaN)])]]))))

\* (h - mean) * (rsqrt(var + epsilon) * scale) + bias on stored statistics
NormalizeRunning(h, mean, var, scale, bias) ==
    IF var = NaN \/ var = NegInf THEN NaN
    ELSE IF var = PosInf THEN FAdd(FProd(FProd(FSub(h, mean), 0), scale), bias)
    ELSE IF IsFinite(h) /\ IsFinite(mean)
         THEN Normalize(h, mean, Isqrt(var * Unit + 10), scale, bias)
    ELSE FAdd(FProd(FSub(h, mean), scale), bias)

\* nn.BatchNorm(use_running_average = True)
BatchNormRunning(bn, ra, hs) ==
    [out |-> Array([c \in 1..Len(hs) |-> Array([i \in 1..Len(bn.scale) |->
                NormalizeRunning(hs[c][i], ra.mean[i], ra.var[i], bn.scale[i], bn.bias[i])])]),
     stats |-> ra]

\* faulty variant: batch statistics whatever use_running_average says
BatchNormIgnoringMode(bn, ra, hs, use_running_average) == BatchNormNotRunning(bn, ra, hs)

BatchNorm(bn, ra, hs, use_running_average) ==
    IF use_running_average THEN BatchNormRunning(bn, ra, hs)
    ELSE BatchNormNotRunning(bn, ra, hs)

\* the Bernoulli(keep) mask bit that key gives feature i of cell c at a
\* dropout layer (site tells the layers of one module apart)
MaskBit(key, site, c, i) == (key + site + c + i) % 2 = 0

\* faulty variant: the mask is applied whatever deterministic says
DropoutIgnoringDeterministic(rate, h, deterministic, key, site, c) ==
    IF rate = 0 THEN h
    ELSE Array([i \in 1..Len(h) |->
            IF ~MaskBit(key, site, c, i) THEN 0
            ELSE IF IsFinite(h[i]) THEN RDiv(h[i] * Unit, Unit - rate) ELSE h[i]])

\* nn.Dropout(rate)(h, deterministic) on the feature vector of cell c
Dropout(rate, h, deterministic, key, site, c) ==
    IF rate = 0 \/ deterministic THEN h
    ELSE Array([i \in 1..Len(h) |->
            IF ~MaskBit(key, site, c, i) THEN 0
            ELSE IF IsFinite(h[i]) THEN RDiv(h[i] * Unit, Unit - rate) ELSE h[i]])

\* draws that one dropout layer takes from the 'dropout' stream
DropoutDraws(rate, deterministic) == IF rate = 0 \/ deterministic THEN 0 ELSE 1

\* the standard normal draw that key gives latent dimension j of cell c in
\* sample s
Noise(key, s, c, j) == (((key + s - 1 + c + j) % 3) - 1) * Unit

\* sample s of dist.Normal(loc, scale).rsample(key, sample_shape) for cell c
RSample(loc, scale, key, s, c) ==
    Array([j \in 1..Len(loc) |-> FAdd(loc[j], FProd(scale[j], Noise(key, s, c, j)))])

\* logarithm of a value that may have been rounded to zero
FLog(v, q) == IF v = 0 THEN NegInf ELSE IF v < 0 THEN NaN ELSE LnSigned(v, q)

\* logarithm of a Q10 value, special values included
FLn(a) == IF a = NaN \/ a = PosInf THEN a ELSE FLog(a, 10)

\* dist.kl_divergence(Normal(loc, scale), Normal(0, 1)), elementwise
KlNormal(loc, scale) ==
    LET var_ratio == FProd(scale, scale)
        t1 == FProd(loc, loc)
        s == FSub(FAdd(FAdd(var_ratio, t1), -Unit), FLn(var_ratio))
    IN  IF IsFinite(s) THEN RDiv(s, 2) ELSE s

-----------------------------------------------------------------------------
(* State *)

VARIABLES
    dropout_rate,       \* JaxPEAKVAE.dropout_rate (Q10)
    eps,                \* JaxPEAKVAE.eps (Q30)
    region_factors,     \* JaxPEAKVAE.region_factors
    submodules,         \* the dropout rates the three sub-networks were built with
    params,             \* the 'params' collection: weights and rf
    batch_stats,        \* the 'batch_stats' collection: running statistics
    training,           \* self.training
    pc,                 \* position in the forward pass
    tensors,            \* the minibatch of the pass
    rngs,               \* the 'dropout' and 'z' keys of the pass
    rng_draws,          \* make_rng calls of the pass, per stream
    inference_outputs,
    generative_inputs,
    generative_outputs,
    kl_weight,
    losses,
    n_train,            \* forward passes begun in training mode
    rl_args,            \* arguments of a direct get_reconstruction_loss call
    rl_out              \* and its result

config == <<dropout_rate, eps, region_factors, submodules>>
pass == <<tensors, rngs, rng_draws, inference_outputs, generative_inputs,
          generative_outputs, kl_weight, losses>>
rl == <<rl_args, rl_out>>
vars == <<config, params, batch_stats, training, pc, pass, n_train, rl>>

-----------------------------------------------------------------------------
(* Construction *)

Zeros(n) == Array([i \in 1..n |-> 0])
Ones(n) == Array([i \in 1..n |-> Unit])

\* the kernel and bias the 'params' stream gives layer id of a module
InitDense(key, id, n_in, n_out) ==
    [kernel |-> Array([i \in 1..n_in |-> Array([j \in 1..n_out |->
                    (((2 * key + 3 * id + i + 3 * j) % 5) - 2) * 256])]),
     bias |-> Array([j \in 1..n_out |-> (((key + id + j) % 3) - 1) * 128])]

InitNorm(n) == [scale |-> Ones(n), bias |-> Zeros(n)]

InitStats(n) == [mean |-> Zeros(n), var |-> Ones(n)]

FlaxEncoderSetup(key) ==
    [dense1 |-> InitDense(key, 1, n_input, n_hidden),
     dense2 |-> InitDense(key, 2, n_hidden, n_hidden),
     dense3 |-> InitDense(key, 3, n_hidden, n_latent),
     dense4 |-> InitDense(key, 4, n_hidden, n_latent),
     layernorm1 |-> InitNorm(n_hidden),
     layernorm2 |-> InitNorm(n_hidden)]

\* n_first is the width of the first positional input, n_out of the output
FlaxDecoderSetup(key, n_first, n_out) ==
    [dense1 |-> InitDense(key, 1, n_first, n_hidden),
     dense2 |-> InitDense(key, 2, n_batch, n_hidden),
     dense3 |-> InitDense(key, 3, n_hidden, n_hidden),
     dense4 |-> InitDense(key, 4, n_batch, n_hidden),
     dense5 |-> InitDense(key, 5, n_hidden, n_out),
     batchnorm1 |-> InitNorm(n_hidden),
     batchnorm2 |-> InitNorm(n_hidden)]

FlaxDecoderStats == [batchnorm1 |-> InitStats(n_hidden), batchnorm2 |-> InitStats(n_hidden)]

\* faulty variant: the configured dropout rate handed to all three sub-networks
SetupSharedDropout(key, cfg_dropout_rate, cfg_region_factors) ==
    [submodules |-> [encoder |-> [dropout_rate |-> cfg_dropout_rate],
                     decoder |-> [dropout_rate |-> cfg_dropout_rate],
                     d_encoder |-> [dropout_rate |-> cfg_dropout_rate]],
     params |-> [encoder |-> FlaxEncoderSetup(key),
                 decoder |-> FlaxDecoderSetup(key + 1, n_latent, n_input),
                 d_encoder |-> FlaxDecoderSetup(key + 2, n_input, 1),
                 rf |-> IF cfg_region_factors THEN {Zeros(n_input)} ELSE {}],
     batch_stats |-> [decoder |-> FlaxDecoderStats, d_encoder |-> FlaxDecoderStats]]

\* JaxPEAKVAE.setup: the three sub-networks and, when enabled, rf.  An absent
\* rf (None) is the empty set, a present one the set holding the vector.
Setup(key, cfg_dropout_rate, cfg_region_factors) ==
    [submodules |-> [encoder |-> [dropout_rate |-> cfg_dropout_rate],
                     decoder |-> [dropout_rate |-> 0],
                     d_encoder |-> [dropout_rate |-> 0]],
     params |-> [encoder |-> FlaxEncoderSetup(key),
                 decoder |-> FlaxDecoderSetup(key + 1, n_latent, n_input),
                 d_encoder |-> FlaxDecoderSetup(key + 2, n_input, 1),
                 rf |-> IF cfg_region_factors THEN {Zeros(n_input)} ELSE {}],
     batch_stats |-> [decoder |-> FlaxDecoderStats, d_encoder |-> FlaxDecoderStats]]

-----------------------------------------------------------------------------
(* The networks *)

LeakyReluVec(h) == Array([i \in 1..Len(h) |-> LeakyRelu(h[i])])

\* FlaxEncoder.__call__ on cell c of the minibatch
FlaxEncoderCell(p, rate, x, is_eval, key, c) ==
    With(Array([i \in 1..Len(x) |-> Log1p(x[i])]), LAMBDA x_ :
    With(Dense(p.dense1, x_), LAMBDA h1 :
    With(LayerNorm(p.layernorm1, h1), LAMBDA h2 :
    With(LeakyReluVec(h2), LAMBDA h3 :
    With(Dropout(rate, h3, is_eval, key, 1, c), LAMBDA h4 :
    With(Dense(p.dense2, h4), LAMBDA h5 :
    With(LayerNorm(p.layernorm2, h5), LAMBDA h6 :
    With(LeakyReluVec(h6), LAMBDA h7 :
    With(Dropout(rate, h7, is_eval, key, 2, c), LAMBDA h :
    With(Dense(p.dense3, h), LAMBDA mean :
    With(Dense(p.dense4, h), LAMBDA log_var :
    [mean |-> mean,
     var |-> Array([j \in 1..Len(log_var) |-> Exp(log_var[j])])])))))))))))

\* FlaxEncoder.__call__: mean and variance per cell, and the draws taken
\* from the 'dropout' stream
FlaxEncoder(p, rate, x, training_flag, key) ==
    With(~training_flag, LAMBDA is_eval :
    With(Array([c \in 1..Len(x) |-> FlaxEncoderCell(p, rate, x[c], is_eval, key, c)]),
         LAMBDA cells :
    [mean |-> Array([c \in 1..Len(x) |-> cells[c].mean]),
     var |-> Array([c \in 1..Len(x) |-> cells[c].var]),
     draws |-> 2 * DropoutDraws(rate, is_eval)]))

\* h = dense_a(z); h += dense_b(batch), for every cell
DenseSum(dense_a, z, dense_b, batch) ==
    Array([c \in 1..Len(z) |->
        With(Dense(dense_a, z[c]), LAMBDA a :
        With(Dense(dense_b, batch[c]), LAMBDA b : VecAdd(a, b)))])

\* h = nn.leaky_relu(h); h = dropout(h, deterministic), for every cell
ActivateDrop(rate, hs, is_eval, key, site) ==
    Array([c \in 1..Len(hs) |->
        With(LeakyReluVec(hs[c]), LAMBDA h : Dropout(rate, h, is_eval, key, site, c))])

\* FlaxDecoder.__call__: the output per cell, the running statistics after
\* the call, and the draws taken from the 'dropout' stream
FlaxDecoder(p, ra, rate, z, batch, training_flag, key) ==
    With(~training_flag, LAMBDA is_eval :
    With(DenseSum(p.dense1, z, p.dense2, batch), LAMBDA h1 :
    With(BatchNorm(p.batchnorm1, ra.batchnorm1, h1, is_eval), LAMBDA bn1 :
    With(ActivateDrop(rate, bn1.out, is_eval, key, 1), LAMBDA h2 :
    With(DenseSum(p.dense3, h2, p.dense4, batch), LAMBDA h3 :
    With(BatchNorm(p.batchnorm2, ra.batchnorm2, h3, is_eval), LAMBDA bn2 :
    With(ActivateDrop(rate, bn2.out, is_eval, key, 2), LAMBDA h4 :
    With(Array([c \in 1..Len(z) |-> Dense(p.dense5, h4[c])]), LAMBDA h5 :
    [out |-> Array([c \in 1..Len(z) |->
                Array([j \in 1..Len(h5[c]) |-> Sigmoid(h5[c][j])])]),
     stats |-> [batchnorm1 |-> bn1.stats, batchnorm2 |-> bn2.stats],
     draws |-> 2 * DropoutDraws(rate, is_eval)]))))))))

-----------------------------------------------------------------------------
(* JaxPEAKVAE *)

\* the default of get_reconstruction_loss's eps, 1e-8, in Q30
DefaultEps == RDiv(One30, 100000000)

\* a Q30 epsilon added to a Q10 value
AddEps(v, e) == IF IsFinite(v) THEN v + RDiv(e, 2^20) ELSE v

\* _get_inference_input
GetInferenceInput(t) == [x |-> t.X, batch_index |-> t.batch_index]

\* jax.nn.one_hot(batch_index, self.n_batch).squeeze(-2)
OneHotBatch(batch_index) ==
    Array([c \in 1..Len(batch_index) |-> OneHot(batch_index[c], n_batch)])

\* inference(x, batch_index, n_samples): z holds one sample per cell when
\* n_samples is 1, and n_samples such layers otherwise
Inference(mods, p, bs, training_flag, self_eps, x, batch_index, n_samples, keys) ==
    With(FlaxEncoder(p.encoder, mods.encoder.dropout_rate, x, training_flag, keys.dropout),
         LAMBDA enc :
    With(Array([c \in 1..Len(x) |-> Array([j \in 1..Len(enc.var[c]) |->
                  AddEps(Sqrt(enc.var[c][j]), self_eps)])]), LAMBDA stddev :
    With(OneHotBatch(batch_index), LAMBDA batch :
    With(Array([c \in 1..Len(x) |-> Array([i \in 1..Len(x[c]) |-> x[c][i] * Unit])]),
         LAMBDA x_float :
    With(FlaxDecoder(p.d_encoder, bs.d_encoder, mods.d_encoder.dropout_rate, x_float,
                     batch, training_flag, keys.dropout), LAMBDA dep :
    With([loc |-> enc.mean, scale |-> stddev], LAMBDA qz :
    With(IF n_samples = 1
         THEN Array([c \in 1..Len(x) |-> RSample(qz.loc[c], qz.scale[c], keys.z, 1, c)])
         ELSE Array([s \in 1..n_samples |-> Array([c \in 1..Len(x) |->
                        RSample(qz.loc[c], qz.scale[c], keys.z, s, c)])]),
         LAMBDA z :
    [outputs |-> [qz |-> qz, z |-> z, d |-> dep.out],
     batch_stats |-> [bs EXCEPT !.d_encoder = dep.stats],
     draws |-> [dropout |-> enc.draws + dep.draws, z |-> 1]])))))))

\* faulty variant: the posterior mean handed on in place of the sample z
GetGenerativeInputFromMean(t, inf_out) ==
    [z |-> inf_out.qz.loc, batch_index |-> t.batch_index]

\* _get_generative_input
GetGenerativeInput(t, inf_out) == [z |-> inf_out.z, batch_index |-> t.batch_index]

\* generative(z, batch_index)
Generative(mods, p, bs, training_flag, z, batch_index, keys) ==
    With(OneHotBatch(batch_index), LAMBDA batch :
    With(FlaxDecoder(p.decoder, bs.decoder, mods.decoder.dropout_rate, z, batch,
                     training_flag, keys.dropout), LAMBDA rho :
    [outputs |-> [px |-> rho.out],
     batch_stats |-> [bs EXCEPT !.decoder = rho.stats],
     draws |-> [dropout |-> rho.draws, z |-> 0]]))

\* faulty variant: the raw counts as labels
LabelsRaw(x) == Array([j \in 1..Len(x) |-> x[j] * Unit])

\* labels = (x > 0).astype(float32)
Labels(x) == Array([j \in 1..Len(x) |-> IF x[j] > 0 THEN Unit ELSE 0])

\* faulty variant: the logarithms taken without eps
BceTermUnstabilized(pred, label, e) ==
    LET preds30 == pred * 2^20
        log_p == FLog(Round32(preds30), 30)
        log_1mp == FLog(Round32(One30 - preds30), 30)
    IN  IF ~IsFinite(pred) THEN NaN
        ELSE FSub(FMul(-label, log_p), FMul(Unit - label, log_1mp))

\* one region's term of the binary cross-entropy of one cell:
\* -label * log(pred + eps) - (1 - label) * log(1 - pred + eps); a pred that
\* is not finite makes one of the logarithms, and the term, NaN
BceTerm(pred, label, e) ==
    LET preds30 == pred * 2^20
        log_p == FLog(Round32(preds30 + e), 30)
        log_1mp == FLog(Round32(Round32(One30 - preds30) + e), 30)
    IN  IF ~IsFinite(pred) THEN NaN
        ELSE FSub(FMul(-label, log_p), FMul(Unit - label, log_1mp))

\* get_reconstruction_loss(p, d, f, x, eps): p and x hold one vector per
\* cell, d one scalar per cell, f one factor per region
GetReconstructionLoss(p, d, f, x, e) ==
    Array([c \in 1..Len(p) |->
        With(Array([j \in 1..Len(p[c]) |-> FProd(FProd(p[c][j], d[c][1]), f[j])]), LAMBDA preds :
        With(Labels(x[c]), LAMBDA labels :
        FSum([j \in 1..Len(preds) |-> BceTerm(preds[j], labels[j], e)])))])

\* faulty variant: an absent rf treated as a vector of zeros
RegionFactorAbsentAsZeros(rf, n) ==
    IF rf # {} THEN With(CHOOSE r \in rf : TRUE, LAMBDA v :
                         Array([j \in 1..Len(v) |-> Sigmoid(v[j])]))
    ELSE Array([j \in 1..n |-> Sigmoid(0)])

\* f = nn.sigmoid(self.rf) if self.rf is not None else 1 (the scalar 1
\* broadcast over the n regions)
RegionFactor(rf, n) ==
    IF rf # {} THEN With(CHOOSE r \in rf : TRUE, LAMBDA v :
                         Array([j \in 1..Len(v) |-> Sigmoid(v[j])]))
    ELSE Array([j \in 1..n |-> Unit])

\* kl_divergence(qz, Normal(0, 1)).sum(-1)
KlDiv(qz) ==
    Array([c \in 1..Len(qz.loc) |->
        FSum([j \in 1..Len(qz.loc[c]) |-> KlNormal(qz.loc[c][j], qz.scale[c][j])])])

\* jnp.sum(reconstruction_loss.sum() + kl_weight * kl_div)
TotalLoss(reconstruction_loss, kl_div, kl_w) ==
    With(FSum(reconstruction_loss), LAMBDA total :
    FSum([c \in 1..Len(kl_div) |-> FAdd(total, FMul(kl_w, kl_div[c]))]))

\* loss(tensors, inference_outputs, generative_outputs, kl_weight)
Loss(rf, t, inf_out, gen_out, kl_w) ==
    With(RegionFactor(rf, Len(gen_out.px[1])), LAMBDA f :
    With(GetReconstructionLoss(gen_out.px, inf_out.d, f, t.X, DefaultEps),
         LAMBDA reconstruction_loss :
    With(KlDiv(inf_out.qz), LAMBDA kl_div :
    [loss |-> TotalLoss(reconstruction_loss, kl_div, kl_w),
     reconstruction_loss |-> reconstruction_loss,
     kl_div |-> kl_div])))

-----------------------------------------------------------------------------
(* Inputs *)

\* cell k of the data: its counts and its batch index
CellX(k) == Array([j \in 1..n_input |-> IF (j + k) % 2 = 0 THEN 2 * k + 1 ELSE 0])
CellBatch(k) == (k - 1) % n_batch

\* the minibatches a caller may pass: the first n cells of the data, one
\* cell whose batch index is outside 0..n_batch-1, and one cell with a
\* negative count
Minibatches ==
    {[X |-> Array([c \in 1..n |-> CellX(c)]), batch_index |-> Array([c \in 1..n |-> CellBatch(c)])] :
        n \in 1..MaxCells}
    \cup {[X |-> <<CellX(1)>>, batch_index |-> <<n_batch>>],
          [X |-> <<[CellX(1) EXCEPT ![1] = -1]>>, batch_index |-> <<CellBatch(1)>>]}

InDomain(t) ==
    \A c \in 1..Len(t.X) :
        /\ t.batch_index[c] >= 0 /\ t.batch_index[c] < n_batch
        /\ \A j \in 1..Len(t.X[c]) : t.X[c][j] >= 0

KlWeights == {Unit, Unit \div 2}
DropoutRates == {0, Unit \div 2}
EpsChoices == {DefaultEps, RDiv(One30, 100)}
ParamKeys == {0}

\* the configurations a model is constructed with: every two of the three
\* settings occur together in each combination of their values
Configs ==
    {[dropout_rate |-> dr, eps |-> e, region_factors |-> rfl] :
        dr \in DropoutRates, e \in EpsChoices, rfl \in BOOLEAN}
    \ {cfg \in [dropout_rate : DropoutRates, eps : EpsChoices, region_factors : BOOLEAN] :
          cfg.region_factors # ((cfg.dropout_rate = 0) = (cfg.eps = DefaultEps))}

NoTensors == [X |-> <<>>, batch_index |-> <<>>]
NoRngs == [dropout |-> 0, z |-> 0]
NoDraws == [dropout |-> 0, z |-> 0]
NoInference == [qz |-> [loc |-> <<>>, scale |-> <<>>], z |-> <<>>, d |-> <<>>]
NoGenerativeInput == [z |-> <<>>, batch_index |-> <<>>]
NoGenerative == [px |-> <<>>]
NoLosses == [loss |-> 0, reconstruction_loss |-> <<>>, kl_div |-> <<>>]
NoRlArgs == [p |-> <<>>, d |-> <<>>, f |-> <<>>, x |-> <<>>]
NoRlOut == [called |-> FALSE, value |-> <<>>]

-----------------------------------------------------------------------------
(* The forward pass *)

Init ==
    /\ \E cfg \in Configs, key \in ParamKeys :
          \E m \in {Setup(key, cfg.dropout_rate, cfg.region_factors)} :
              /\ dropout_rate = cfg.dropout_rate
              /\ eps = cfg.eps
              /\ region_factors = cfg.region_factors
              /\ submodules = m.submodules
              /\ params = m.params
              /\ batch_stats = m.batch_stats
    /\ training = FALSE
    /\ pc = "idle"
    /\ tensors = NoTensors
    /\ rngs = NoRngs
    /\ rng_draws = NoDraws
    /\ inference_outputs = NoInference
    /\ generative_inputs = NoGenerativeInput
    /\ generative_outputs = NoGenerative
    /\ kl_weight = Unit
    /\ losses = NoLosses
    /\ n_train = 0
    /\ rl_args = NoRlArgs
    /\ rl_out = NoRlOut

\* train() / eval() between passes
SetTraining ==
    /\ pc = "idle"
    /\ training' = ~training
    /\ UNCHANGED <<config, params, batch_stats, pc, pass, n_train, rl>>

\* seeds a pass may get: the training loop seeds its k-th pass from k, a
\* caller in evaluation mode supplies any seed
Seeds == IF training THEN {n_train % Cardinality(Keys)} ELSE Keys

\* the forward pass calls inference on what _get_inference_input takes from
\* the minibatch, n_samples left at its default 1; the keys of both streams
\* derive from the seed of the pass
DoInference ==
    /\ pc = "idle"
    /\ training => n_train < MaxTrainPasses
    /\ \E t \in Minibatches, seed \in Seeds :
          \E keys \in {[dropout |-> seed, z |-> seed]}, inp \in {GetInferenceInput(t)} :
          \E r \in {Inference(submodules, params, batch_stats, training, eps,
                               inp.x, inp.batch_index, 1, keys)} :
              /\ tensors' = t
              /\ rngs' = keys
              /\ inference_outputs' = r.outputs
              /\ batch_stats' = r.batch_stats
              /\ rng_draws' = r.draws
    /\ n_train' = IF training THEN n_train + 1 ELSE n_train
    /\ pc' = "inferred"
    /\ UNCHANGED <<config, params, training, generative_inputs, generative_outputs,
                   kl_weight, losses, rl>>

\* then generative on what _get_generative_input takes from inference
DoGenerative ==
    /\ pc = "inferred"
    /\ \E inp \in {GetGenerativeInput(tensors, inference_outputs)} :
       \E r \in {Generative(submodules, params, batch_stats, training,
                             inp.z, inp.batch_index, rngs)} :
           /\ generative_inputs' = inp
           /\ generative_outputs' = r.outputs
           /\ batch_stats' = r.batch_stats
           /\ rng_draws' = [dropout |-> rng_draws.dropout + r.draws.dropout,
                            z |-> rng_draws.z + r.draws.z]
    /\ pc' = "generated"
    /\ UNCHANGED <<config, params, training, tensors, rngs, inference_outputs,
                   kl_weight, losses, n_train, rl>>

\* then loss on the outputs of both
DoLoss ==
    /\ pc = "generated"
    /\ \E kw \in KlWeights :
          /\ kl_weight' = kw
          /\ losses' = Loss(params.rf, tensors, inference_outputs, generative_outputs, kw)
    /\ pc' = "done"
    /\ UNCHANGED <<config, params, batch_stats, training, tensors, rngs, rng_draws,
                   inference_outputs, generative_inputs, generative_outputs, n_train, rl>>

\* the training loop applies a gradient step after a pass in training mode
TrainStep ==
    /\ pc = "done"
    /\ training
    /\ params' = [params EXCEPT
                    !.rf = {Array([j \in 1..Len(v) |-> v[j] + (IF j % 2 = 1 THEN 512 ELSE -512)]) :
                              v \in params.rf},
                    !.encoder = FlaxEncoderSetup(n_train),
                    !.decoder = FlaxDecoderSetup(n_train + 1, n_latent, n_input),
                    !.d_encoder = FlaxDecoderSetup(n_train + 2, n_input, 1)]
    /\ pc' = "idle"
    /\ tensors' = NoTensors
    /\ rngs' = NoRngs
    /\ rng_draws' = NoDraws
    /\ inference_outputs' = NoInference
    /\ generative_inputs' = NoGenerativeInput
    /\ generative_outputs' = NoGenerative
    /\ kl_weight' = Unit
    /\ losses' = NoLosses
    /\ UNCHANGED <<config, batch_stats, training, n_train, rl>>

\* in evaluation mode the caller takes the results; the module is ready for
\* the next pass
Return ==
    /\ pc = "done"
    /\ ~training
    /\ pc' = "idle"
    /\ tensors' = NoTensors
    /\ rngs' = NoRngs
    /\ rng_draws' = NoDraws
    /\ inference_outputs' = NoInference
    /\ generative_inputs' = NoGenerativeInput
    /\ generative_outputs' = NoGenerative
    /\ kl_weight' = Unit
    /\ losses' = NoLosses
    /\ UNCHANGED <<config, params, batch_stats, training, n_train, rl>>

Next == SetTraining \/ DoInference \/ DoGenerative \/ DoLoss \/ TrainStep \/ Return

Spec == Init /\ [][Next]_vars

-----------------------------------------------------------------------------
(* Direct calls of get_reconstruction_loss *)

\* values of rho, d and f: both endpoints of [0, 1] and an interior point
Probabilities == {0, Unit \div 2, Unit}

\* raw counts of a region, with a value below the domain
Counts == {-1, 0, 1, 3}

\* the vectors of length n with elements in S
Vectors(S, n) == {Array(v) : v \in [1..n -> S]}

\* arguments of a call on one cell: p and x with one value per region, d one
\* value, f one factor for all regions
RlArgs ==
    {[p |-> <<p>>, d |-> << <<d>> >>, f |-> Array([j \in 1..n_input |-> f]), x |-> <<x>>] :
        p \in Vectors(Probabilities, n_input), d \in Probabilities,
        f \in Probabilities, x \in Vectors(Counts, n_input)}

InitRL ==
    /\ \E m \in {Setup(0, 0, TRUE)} :
          /\ submodules = m.submodules
          /\ params = m.params
          /\ batch_stats = m.batch_stats
    /\ dropout_rate = 0
    /\ eps = DefaultEps
    /\ region_factors = TRUE
    /\ training = FALSE
    /\ pc = "idle"
    /\ tensors = NoTensors
    /\ rngs = NoRngs
    /\ rng_draws = NoDraws
    /\ inference_outputs = NoInference
    /\ generative_inputs = NoGenerativeInput
    /\ generative_outputs = NoGenerative
    /\ kl_weight = Unit
    /\ losses = NoLosses
    /\ n_train = 0
    /\ rl_args \in RlArgs
    /\ rl_out = NoRlOut

\* get_reconstruction_loss(p, d, f, x), eps left at its default
CallGetReconstructionLoss ==
    /\ ~rl_out.called
    /\ rl_out' = [called |-> TRUE,
                  value |-> GetReconstructionLoss(rl_args.p, rl_args.d, rl_args.f,
                                                  rl_args.x, DefaultEps)]
    /\ UNCHANGED <<config, params, batch_stats, training, pc, pass, n_train, rl_args>>

NextRL == CallGetReconstructionLoss

SpecRL == InitRL /\ [][NextRL]_vars

-----------------------------------------------------------------------------
(* Properties *)

Started == pc \in {"inferred", "generated", "done"}
Generated == pc \in {"generated", "done"}

InferenceStep == pc = "idle" /\ pc' = "inferred"
GenerativeStep == pc = "inferred" /\ pc' = "generated"
LossStep == pc = "generated" /\ pc' = "done"
ForwardStep == InferenceStep \/ GenerativeStep \/ LossStep

\* inference of the current pass, run again with dropout key dk
InferenceWith(dk) ==
    Inference(submodules, params, batch_stats, training, eps, tensors.X,
              tensors.batch_index, 1, [dropout |-> dk, z |-> rngs.z])

\* generative of the current pass, run again with dropout key dk
GenerativeWith(dk) ==
    Generative(submodules, params, batch_stats, training, generative_inputs.z,
               generative_inputs.batch_index, [dropout |-> dk, z |-> rngs.z])

\* the first n cells of a minibatch
Prefix(t, n) == [X |-> SubSeq(t.X, 1, n), batch_index |-> SubSeq(t.batch_index, 1, n)]

\* C1: the total loss returned by loss() is the sum over cells of the
\* reconstruction loss plus kl_weight times the sum over cells of kl_div, the
\* reconstruction term counted once whatever the number of cells.
C1_ReconstructionCountedOnce ==
    pc = "done" =>
        losses.loss = FSum([c \in 1..Len(losses.kl_div) |->
                          FAdd(losses.reconstruction_loss[c],
                               FMul(kl_weight, losses.kl_div[c]))])

\* C2 as stated: no inference, generative or loss call changes the weights,
\* rf or the running statistics, in training mode as in evaluation mode.
C2_ForwardPassChangesNothing ==
    [][ForwardStep => params' = params /\ batch_stats' = batch_stats]_vars

\* C2, amended: no inference, generative or loss call changes the weights or
\* rf; in evaluation mode none changes the running statistics; in training
\* mode inference changes at most those of the depth encoder, generative at
\* most those of the decoder, loss none; weights and rf change only in the
\* training loop's step.
C2_ForwardPassFrame ==
    [][/\ ForwardStep =>
            /\ params' = params
            /\ ~training => batch_stats' = batch_stats
            /\ InferenceStep => batch_stats'.decoder = batch_stats.decoder
            /\ GenerativeStep => batch_stats'.d_encoder = batch_stats.d_encoder
            /\ LossStep => batch_stats' = batch_stats
       /\ params' # params => pc = "done" /\ training /\ pc' = "idle"]_vars

\* a training-mode pass has updated the running statistics of both networks
C2_RunningStatisticsUpdated ==
    /\ training
    /\ pc = "done"
    /\ batch_stats.d_encoder # FlaxDecoderStats
    /\ batch_stats.decoder # FlaxDecoderStats

\* C3: for rho, d and f in [0, 1], endpoints included, and every count
\* vector, each per-cell value get_reconstruction_loss returns is finite and
\* not negative.
C3_ReconstructionLossFiniteNonNegative ==
    rl_out.called =>
        \A c \in 1..Len(rl_out.value) :
            IsFinite(rl_out.value[c]) /\ rl_out.value[c] >= 0

\* a call where preds is exactly 1 in a region with a positive count and
\* exactly 0 in a region without
C3_PredsAtBothEndpoints ==
    /\ rl_out.called
    /\ \E i, j \in 1..n_input :
          /\ Mul(Mul(rl_args.p[1][i], rl_args.d[1][1]), rl_args.f[i]) = Unit
          /\ rl_args.x[1][i] > 0
          /\ Mul(Mul(rl_args.p[1][j], rl_args.d[1][1]), rl_args.f[j]) = 0
          /\ rl_args.x[1][j] = 0

\* C4: with region_factors disabled there is no rf and the three results of
\* loss() are those computed with f = 1 for every region; with it enabled rf
\* is a vector of length n_input, zero after construction, and f is
\* sigmoid(rf).
C4_RegionFactors ==
    /\ ~region_factors => params.rf = {}
    /\ region_factors =>
          /\ Cardinality(params.rf) = 1
          /\ \A v \in params.rf : Len(v) = n_input
          /\ n_train = 0 => params.rf = {Zeros(n_input)}
    /\ pc = "done" =>
          \E f \in (IF region_factors
                    THEN {Array([j \in 1..n_input |-> Sigmoid(v[j])]) : v \in params.rf}
                    ELSE {Ones(n_input)}) :
          \E rec \in {GetReconstructionLoss(generative_outputs.px, inference_outputs.d,
                                            f, tensors.X, DefaultEps)} :
          \E kl \in {KlDiv(inference_outputs.qz)} :
              losses = [loss |-> TotalLoss(rec, kl, kl_weight),
                        reconstruction_loss |-> rec,
                        kl_div |-> kl]

\* a loss computed without region factors, on more than one cell
C4_LossWithoutRegionFactors ==
    /\ ~region_factors
    /\ pc = "done"
    /\ Len(tensors.X) > 1
    /\ \A c \in 1..Len(tensors.X) : IsFinite(losses.reconstruction_loss[c])

\* C5: in evaluation mode a pass run again on the same parameters, tensors
\* and 'z' key gives the same qz, z, d, px and loss terms whatever the
\* 'dropout' key; no dropout mask is drawn, the running statistics are read
\* and left alone, and what a cell gets does not depend on the other cells
\* of its minibatch.
C5_EvaluationPassDeterministic ==
    (~training /\ Started) =>
        /\ rng_draws.dropout = 0
        /\ \A dk \in Keys : \E r \in {InferenceWith(dk)} :
              /\ r.outputs = inference_outputs
              /\ r.batch_stats = batch_stats
        /\ \A n \in 1..(Len(tensors.X) - 1) : \E t \in {Prefix(tensors, n)} :
           \E r \in {Inference(submodules, params, batch_stats, training, eps, t.X,
                                t.batch_index, 1, rngs)} :
              /\ r.outputs.z = SubSeq(inference_outputs.z, 1, n)
              /\ r.outputs.d = SubSeq(inference_outputs.d, 1, n)
              /\ r.outputs.qz.loc = SubSeq(inference_outputs.qz.loc, 1, n)
              /\ r.outputs.qz.scale = SubSeq(inference_outputs.qz.scale, 1, n)
        /\ Generated =>
              \A dk \in Keys : \E r \in {GenerativeWith(dk)} :
                  /\ r.outputs = generative_outputs
                  /\ r.batch_stats = batch_stats
        /\ pc = "done" =>
              losses = Loss(params.rf, tensors, inference_outputs, generative_outputs,
                            kl_weight)

\* an evaluation-mode pass of a model with dropout configured, on more than
\* one cell, after the running statistics have moved off their initial values
C5_EvaluationPassDone ==
    /\ ~training
    /\ pc = "done"
    /\ dropout_rate > 0
    /\ Len(tensors.X) > 1
    /\ batch_stats.decoder # FlaxDecoderStats

\* C6: the label of a region is 1 if its raw count is > 0 and 0 otherwise,
\* so the reconstruction loss of a count vector is that of its binarized
\* form: count vectors with the same positive regions give the same loss.
C6_LabelsAreBinarizedCounts ==
    rl_out.called =>
        /\ rl_out.value =
              GetReconstructionLoss(rl_args.p, rl_args.d, rl_args.f,
                  <<Array([j \in 1..n_input |-> IF rl_args.x[1][j] > 0 THEN 1 ELSE 0])>>,
                  DefaultEps)
        /\ rl_out.value[1] =
              FSum([j \in 1..n_input |->
                  BceTerm(Mul(Mul(rl_args.p[1][j], rl_args.d[1][1]), rl_args.f[j]),
                          IF rl_args.x[1][j] > 0 THEN Unit ELSE 0, DefaultEps)])

\* a call on a count above 1 beside a count of 0, with preds strictly
\* between 0 and 1
C6_CountAboveOne ==
    /\ rl_out.called
    /\ \E i, j \in 1..n_input : rl_args.x[1][i] > 1 /\ rl_args.x[1][j] = 0
    /\ \A j \in 1..n_input :
          LET preds == Mul(Mul(rl_args.p[1][j], rl_args.d[1][1]), rl_args.f[j])
          IN  preds > 0 /\ preds < Unit

\* C7: inference, generative and loss return no result for a minibatch with
\* a batch index outside 0..n_batch-1 or a negative count.
C7_OutOfDomainRejected == Started => InDomain(tensors)

\* C8: the eps the model was constructed with is the one in the posterior
\* stddev, sqrt(var) + eps, and in the logarithms of the reconstruction loss
\* that loss() computes.
C8_ConfiguredEpsEverywhere ==
    /\ Started =>
          \E enc \in {FlaxEncoder(params.encoder, submodules.encoder.dropout_rate,
                                  tensors.X, training, rngs.dropout)} :
              \A c \in 1..Len(tensors.X) : \A j \in 1..n_latent :
                  inference_outputs.qz.scale[c][j] = AddEps(Sqrt(enc.var[c][j]), eps)
    /\ pc = "done" =>
          losses.reconstruction_loss =
              GetReconstructionLoss(generative_outputs.px, inference_outputs.d,
                                    RegionFactor(params.rf, n_input), tensors.X, eps)

\* C9: generative is given the z of the pass's inference call and the batch
\* index of the pass's tensors; loss is computed from the qz and d of that
\* inference call and the px of that generative call; nothing of generative
\* exists before inference has run and nothing of loss before both have.
C9_PhasesInOrder ==
    /\ pc = "idle" =>
          /\ inference_outputs = NoInference
          /\ generative_outputs = NoGenerative
          /\ losses = NoLosses
    /\ pc = "inferred" =>
          /\ Len(inference_outputs.z) = Len(tensors.X)
          /\ generative_inputs = NoGenerativeInput
          /\ generative_outputs = NoGenerative
          /\ losses = NoLosses
    /\ Generated =>
          /\ generative_inputs = [z |-> inference_outputs.z,
                                  batch_index |-> tensors.batch_index]
          /\ Len(generative_outputs.px) = Len(tensors.X)
          /\ generative_outputs = GenerativeWith(rngs.dropout).outputs
    /\ pc = "generated" => losses = NoLosses
    /\ pc = "done" =>
          losses = Loss(params.rf, tensors, inference_outputs, generative_outputs,
                        kl_weight)

\* a finished pass whose sample z differs from the posterior mean
C9_PassDone ==
    /\ pc = "done"
    /\ generative_inputs.z = inference_outputs.z
    /\ inference_outputs.z # inference_outputs.qz.loc

\* C10: the decoder and the depth encoder are built with dropout rate 0
\* whatever dropout_rate is configured, the encoder with the configured
\* rate; in training mode as in evaluation mode d and px are the same under
\* every 'dropout' key.
C10_DropoutOnlyInEncoder ==
    /\ submodules.encoder.dropout_rate = dropout_rate
    /\ submodules.decoder.dropout_rate = 0
    /\ submodules.d_encoder.dropout_rate = 0
    /\ Started => \A dk \in Keys : InferenceWith(dk).outputs.d = inference_outputs.d
    /\ Generated => \A dk \in Keys : GenerativeWith(dk).outputs.px = generative_outputs.px

\* a training-mode pass of a model with dropout configured, in which the
\* 'dropout' key does decide the encoder's output
C10_DropoutActiveInEncoder ==
    /\ training
    /\ pc = "done"
    /\ dropout_rate > 0
    /\ rng_draws.dropout = 2
    /\ \E dk \in Keys : InferenceWith(dk).outputs.z # inference_outputs.z

=============================================================================
